---- MODULE Spec2Model ----
(***************************************************************************)
(* Gesture-controlled lights: Runner.runner() (port selection, serial      *)
(* link, camera loop) and the parts of Hands.py it drives (Hand.get_hand,  *)
(* Hand.get_finger, Hand.draw_line, map_distance_to_scale).                *)
(*                                                                         *)
(* Python strings are sequences of one-character strings; bytes are        *)
(* sequences of integers.  Normalised landmark coordinates are integers in *)
(* thousandths (x = 250 stands for 0.250).                                 *)
(***************************************************************************)
EXTENDS Integers, Sequences, FiniteSets, TLC

\* ------------------------------------------------------------------ bounds
\* Number of frames the camera delivers before every further read fails.
MaxFrames == 3
\* Largest distance the pure-function specification feeds the mapper.
MaxDistance == 260

\* ----------------------------------------------------------------- strings
\* None where the program holds a sequence or nothing (a list, a string); the
\* program only ever tests such a value for truth, and both are false.
None == <<>>

Abs(n) == IF n < 0 THEN -n ELSE n

\* Mutant: the whole string is compared instead of its prefix.
StartsWith_exact(s, prefix) == s = prefix

\* str.startswith
StartsWith(s, prefix) ==
    /\ Len(prefix) <= Len(s)
    /\ SubSeq(s, 1, Len(prefix)) = prefix

\* Code points of the characters the program can put on the wire.
Ord ==
    "Z" :> 90 @@ "E" :> 69 @@ "R" :> 82 @@ "O" :> 79 @@ "N" :> 78 @@
    "T" :> 84 @@ "W" :> 87 @@ "H" :> 72 @@ "F" :> 70 @@ "U" :> 85 @@
    "I" :> 73 @@ "V" :> 86 @@ "\n" :> 10

\* str.encode('utf-8') on the (ASCII) payload
encode(s) == [i \in 1..Len(s) |-> Ord[s[i]]]

\* ---------------------------------------------------------------- Hands.py
min_distance == 15
max_distance == 200

\* the dictionary of map_distance_to_scale / finger_count
mapping ==
    0 :> <<"Z", "E", "R", "O">> @@
    1 :> <<"O", "N", "E">> @@
    2 :> <<"T", "W", "O">> @@
    3 :> <<"T", "H", "R", "E", "E">> @@
    4 :> <<"F", "O", "U", "R">> @@
    5 :> <<"F", "I", "V", "E">>

KeyError == <<"KeyError">>

\* int(): truncation toward zero of the rational num/den, den > 0
int(num, den) == IF num >= 0 THEN num \div den ELSE -((-num) \div den)

\* Mutant: the interpolation extrapolates above hi instead of saturating.
interp_int_unclamped(x, lo, hi) ==
    IF x <= lo THEN 0 ELSE int(5 * (x - lo), hi - lo)

\* Mutant: the interpolated value is rounded to nearest instead of truncated.
interp_int_rounded(x, lo, hi) ==
    IF x <= lo THEN 0
    ELSE IF x >= hi THEN 5
    ELSE int(2 * 5 * (x - lo) + (hi - lo), 2 * (hi - lo))

\* int(numpy.interp(x, [lo, hi], [0, 5])): numpy.interp returns the left value
\* at or below lo, the right value at or above hi, and the point on the line
\* between them otherwise.
interp_int(x, lo, hi) ==
    IF x <= lo THEN 0
    ELSE IF x >= hi THEN 5
    ELSE int(5 * (x - lo), hi - lo)

\* map_distance_to_scale(distance) with the default bounds: the dictionary
\* lookup raises KeyError on a key that is not in mapping.
map_distance_to_scale(distance) ==
    LET key == interp_int(distance, min_distance, max_distance)
    IN  IF key \in DOMAIN mapping THEN mapping[key] ELSE KeyError

\* The names get_finger's if/elif chain knows; every other string takes the
\* else branch.
named_fingers == {"thumb", "index", "middle", "ring", "pinky"}

\* Landmark indexes of a named finger (get_finger's if/elif chain).
points(finger) ==
    CASE finger = "thumb"  -> <<2, 3, 4>>
      [] finger = "index"  -> <<5, 6, 7, 8>>
      [] finger = "middle" -> <<9, 10, 11, 12>>
      [] finger = "ring"   -> <<13, 14, 15, 16>>
      [] finger = "pinky"  -> <<17, 18, 19, 20>>

\* Mutant: the pixel coordinate is rounded to nearest instead of truncated.
absolute_rounded(landmark, shape) ==
    <<int(2 * landmark.x * shape[2] + 1000, 2000),
      int(2 * landmark.y * shape[1] + 1000, 2000)>>

\* (int(landmark.x * w), int(landmark.y * h)) with x, y in thousandths;
\* shape = <<h, w>>.
absolute(landmark, shape) ==
    <<int(landmark.x * shape[2], 1000), int(landmark.y * shape[1], 1000)>>

\* The positions get_finger collects from one hand: its landmarks whose index
\* is in points, in landmark order (landmark k is element k + 1).
hand_positions(hand, pts, shape) ==
    [j \in 1..Len(pts) |-> absolute(hand[pts[j] + 1], shape)]

RECURSIVE all_positions(_, _, _)
all_positions(hands, pts, shape) ==
    IF hands = <<>> THEN <<>>
    ELSE hand_positions(Head(hands), pts, shape)
             \o all_positions(Tail(hands), pts, shape)

\* Lines 77-78 of get_finger (and 132-133 of draw_line): a detector that has
\* no results yet processes the image it is given; one that has keeps them.
\* results is the list multi_hand_landmarks (empty when it is None).
ensure_results(processed, results, img) ==
    IF processed THEN results ELSE img.hands

\* Hand.get_finger for a named finger (lines 54-66, 80-87): the positions of
\* its landmarks in every detected hand, or None when there are none.
finger_positions(results, shape, finger) ==
    LET positions == all_positions(results, points(finger), shape)
    IN  IF positions # <<>> THEN positions ELSE None

\* Hand.get_finger(img, finger), results already set: a named finger gives its
\* positions; any other string gives the list of all five fingers' results.
get_finger(results, shape, finger) ==
    IF finger \in named_fingers
    THEN finger_positions(results, shape, finger)
    ELSE <<finger_positions(results, shape, "thumb"),
           finger_positions(results, shape, "index"),
           finger_positions(results, shape, "middle"),
           finger_positions(results, shape, "ring"),
           finger_positions(results, shape, "pinky")>>

\* points[i][-1][0] > points[i][-2][0]
tip_right_of_previous(pos) == pos[Len(pos)][1] > pos[Len(pos) - 1][1]

\* Mutant: a fingertip level with the previous landmark counts as extended.
finger_count_lenient(results, shape) ==
    LET pts == get_finger(results, shape, "")
    IN  IF \E i \in 1..5 : pts[i] = None
        THEN [raised |-> "TypeError", value |-> <<>>]
        ELSE [raised |-> "",
              value |-> mapping[Cardinality({i \in 1..5 :
                          pts[i][Len(pts[i])][1] >= pts[i][Len(pts[i]) - 1][1]})]]

\* Hand.finger_count(img), results already set.  get_finger(img) is a list of
\* five elements and so always true; subscripting an element that is None
\* raises TypeError.
finger_count(results, shape) ==
    LET pts == get_finger(results, shape, "")
    IN  IF pts # <<>>
        THEN IF \E i \in 1..5 : pts[i] = None
             THEN [raised |-> "TypeError", value |-> <<>>]
             ELSE [raised |-> "",
                   value |-> mapping[Cardinality({i \in 1..5 :
                                         tip_right_of_previous(pts[i])})]]
        ELSE [raised |-> "", value |-> mapping[0]]

\* math.hypot on pixel offsets, rounded down to a whole pixel.  The scale levels
\* change only at whole distances (15 + 37k), so the level of the rounded
\* distance is the level of the distance.
hypot(dx, dy) ==
    CHOOSE r \in 0..(Abs(dx) + Abs(dy)) :
        /\ r * r <= dx * dx + dy * dy
        /\ (r + 1) * (r + 1) > dx * dx + dy * dy

\* Mutant: a frame without a fingertip pair resets the distance to 0.
draw_line_resets(results, shape, line_dist) ==
    IF results # <<>>
    THEN LET f1 == all_positions(results, <<2, 3, 4>>, shape)
             f2 == all_positions(results, <<5, 6, 7, 8>>, shape)
         IN  hypot(f1[Len(f1)][1] - f2[Len(f2)][1], f1[Len(f1)][2] - f2[Len(f2)][2])
    ELSE 0

\* Hand.draw_line(img, "thumb", "index", draw=True): the value of line_dist
\* afterwards.  The distance is replaced only when a hand is detected and both
\* fingertips are available; otherwise line_dist keeps its value.
draw_line(results, shape, line_dist) ==
    IF results # <<>>
    THEN LET f1 == get_finger(results, shape, "thumb")
             f2 == get_finger(results, shape, "index")
         IN  IF f1 # None /\ f2 # None
             THEN LET fing1_pos == f1[Len(f1)]
                      fing2_pos == f2[Len(f2)]
                  IN  hypot(fing1_pos[1] - fing2_pos[1], fing1_pos[2] - fing2_pos[2])
             ELSE line_dist
    ELSE line_dist

\* Whether draw_line found a fingertip pair (returned img and not
\* (None, None)).
has_distance(results, shape) ==
    /\ results # <<>>
    /\ get_finger(results, shape, "thumb") # None
    /\ get_finger(results, shape, "index") # None

\* --------------------------------------------------------------- Runner.py
VARIABLES
    pc,               \* the statement runner() executes next
    ports,            \* sp.comports()
    available_ports,  \* [str(port) for port in ports]
    com,              \* the operator's answer to the prompt
    selected_port,
    is_open,          \* serial_.is_open
    camera,           \* "none", "acquired", "released"
    results,          \* detector.results.multi_hand_landmarks
    line_dist,        \* detector.line_dist
    frame,            \* the frame of the current iteration
    scaled_distance,
    last_sent_data,
    wire,             \* the byte strings written to the serial port, in order
    log,              \* observations of the run (history only)
    args,             \* arguments of the call under study (SpecMap, SpecHand)
    rets              \* its result

vars == <<pc, ports, available_ports, com, selected_port, is_open, camera,
          results, line_dist, frame, scaled_distance, last_sent_data, wire,
          log, args, rets>>

\* ---- the environment: serial ports, operator input, camera frames
\* serial.tools.list_ports_common.ListPortInfo.__str__ is
\* "{device} - {description}"
port_str(port) == port.device \o <<" ", "-", " ">> \o port.description

COM2 == [device |-> <<"C", "O", "M", "2">>,
         description |-> <<"U", "S", "B", " ", "S", "e", "r", "i", "a", "l">>]
COM10 == [device |-> <<"C", "O", "M", "1", "0">>, description |-> <<"U", "S", "B">>]
ttyUSB0 == [device |-> <<"/", "d", "e", "v", "/", "t", "t", "y", "U", "S", "B", "0">>,
            description |-> <<"n", "/", "a">>]

PortLists == {<<>>, <<COM2>>, <<ttyUSB0, COM10>>}
Inputs == {<<>>, <<"1">>, <<"2">>, <<"9">>, <<"1", "0">>}

\* A hand is 21 landmarks; this one has its thumb tip (landmark 4) and its
\* index fingertip (landmark 8) at the given points.
MkHand(thumb_tip, index_tip) ==
    [k \in 1..21 |->
        IF k = 5 THEN thumb_tip
        ELSE IF k = 9 THEN index_tip
        ELSE [x |-> 500, y |-> 500]]

FrameShape == <<480, 640>>
ThumbTip == [x |-> 100, y |-> 100]
\* index fingertips at 10, 50 (30 across, 40 down), 52, 126 and 205 pixels
\* from the thumb tip
IndexTips == {[x |-> 116, y |-> 100], [x |-> 147, y |-> 184],
              [x |-> 182, y |-> 100], [x |-> 297, y |-> 100],
              [x |-> 421, y |-> 100]}

NoHand == [shape |-> FrameShape, hands |-> <<>>]
\* max_num_hands is 1: a frame yields at most one hand
Frames == {NoHand} \cup
          {[shape |-> FrameShape, hands |-> <<MkHand(ThumbTip, t)>>] : t \in IndexTips}

NoDist == -1

InitLog ==
    [prompts |-> 0,        \* calls of input()
     opens |-> 0,          \* calls of serial_.open()
     opened |-> FALSE,     \* serial_.open() has succeeded
     writes |-> 0,         \* calls of serial_.write()
     frames |-> 0,         \* frames read
     compared |-> 0,       \* iterations that got past the send step
     observed |-> <<>>,    \* per frame: the fingertip distance, or NoDist
     iter_hand |-> FALSE,  \* this iteration: draw_line found a distance
     iter_prev |-> <<>>,   \* this iteration: last_sent_data when it began
     iter_wrote |-> FALSE, \* this iteration: write() was called
     failed |-> <<>>,      \* the payload whose write raised SerialException
     writes_at_fail |-> 0, \* writes when it did
     cause |-> "",         \* why the loop ended
     finals |-> 0,         \* entries into the finally block
     interrupts |-> 0,     \* KeyboardInterrupts delivered
     pending |-> FALSE,    \* an interrupt the finally block re-raises
     exit |-> ""]          \* "return" or "raise"

RunnerInit ==
    /\ pc = "select"
    /\ ports = <<>>
    /\ available_ports = <<>>
    /\ com = <<>>
    /\ selected_port = None
    /\ is_open = FALSE
    /\ camera = "none"
    /\ results = <<>>
    /\ line_dist = 0
    /\ frame = NoHand
    /\ scaled_distance = <<>>
    /\ last_sent_data = <<>>
    /\ wire = <<>>
    /\ log = InitLog

Init ==
    /\ RunnerInit
    /\ args = <<>>
    /\ rets = <<>>

\* ---- runner(), statement by statement
\* Mutant: the port is taken from the input without looking at the list.
select_port_unchecked(c, strs) == <<"C", "O", "M">> \o c

\* The selection loop: the first port string that starts with "COM" + com
\* selects the string "COM" + com; no such string leaves None.
RECURSIVE select_port(_, _)
select_port(c, strs) ==
    IF strs = <<>> THEN None
    ELSE IF StartsWith(Head(strs), <<"C", "O", "M">> \o c)
         THEN <<"C", "O", "M">> \o c
         ELSE select_port(c, Tail(strs))

\* Entering the finally block, for the given reason.
EnterFinally(l, why) ==
    [l EXCEPT !.finals = @ + 1, !.cause = IF @ = "" THEN why ELSE @]

\* Lines 35-51: enumerate the ports, prompt once, select.
Select ==
    /\ pc = "select"
    /\ \E ps \in PortLists, c \in Inputs :
        LET strs == [i \in 1..Len(ps) |-> port_str(ps[i])]
            sel == select_port(c, strs)
        IN  /\ ports' = ps
            /\ available_ports' = strs
            /\ com' = c
            /\ selected_port' = sel
            /\ IF sel = None
               THEN /\ pc' = "done"
                    /\ log' = [log EXCEPT !.prompts = @ + 1, !.exit = "return"]
               ELSE /\ pc' = "open"
                    /\ log' = [log EXCEPT !.prompts = @ + 1]
    /\ UNCHANGED <<is_open, camera, results, line_dist, frame, scaled_distance,
                   last_sent_data, wire, args, rets>>

\* Lines 54-58: serial_.open() succeeds; it can only for a device that exists.
OpenOk ==
    /\ pc = "open"
    /\ \E i \in 1..Len(ports) : ports[i].device = selected_port
    /\ is_open' = TRUE
    /\ pc' = "camera"
    /\ log' = [log EXCEPT !.opens = @ + 1, !.opened = TRUE]
    /\ UNCHANGED <<ports, available_ports, com, selected_port, camera, results,
                   line_dist, frame, scaled_distance, last_sent_data, wire,
                   args, rets>>

\* Mutant: the failed open is reported and runner() carries on.
OpenFails_proceeds ==
    /\ pc = "open"
    /\ pc' = "camera"
    /\ log' = [log EXCEPT !.opens = @ + 1]
    /\ UNCHANGED <<ports, available_ports, com, selected_port, is_open, camera,
                   results, line_dist, frame, scaled_distance, last_sent_data,
                   wire, args, rets>>

\* Lines 58-61: serial_.open() raises SerialException; runner returns.
OpenFails ==
    /\ pc = "open"
    /\ pc' = "done"
    /\ log' = [log EXCEPT !.opens = @ + 1, !.exit = "return"]
    /\ UNCHANGED <<ports, available_ports, com, selected_port, is_open, camera,
                   results, line_dist, frame, scaled_distance, last_sent_data,
                   wire, args, rets>>

\* Line 64: camera = cv2.VideoCapture(0)
Camera ==
    /\ pc = "camera"
    /\ camera' = "acquired"
    /\ pc' = "detector"
    /\ UNCHANGED <<ports, available_ports, com, selected_port, is_open, results,
                   line_dist, frame, scaled_distance, last_sent_data, wire, log,
                   args, rets>>

\* Lines 65-66: detector = Hand(...) (results None, line_dist 0);
\* last_sent_data = ""
Detector ==
    /\ pc = "detector"
    /\ results' = <<>>
    /\ line_dist' = 0
    /\ last_sent_data' = <<>>
    /\ pc' = "read"
    /\ UNCHANGED <<ports, available_ports, com, selected_port, is_open, camera,
                   frame, scaled_distance, wire, log, args, rets>>

\* Lines 71-72: camera.read() delivers a frame.
ReadOk ==
    /\ pc = "read"
    /\ log.frames < MaxFrames
    /\ \E f \in Frames : frame' = f
    /\ pc' = "detect"
    /\ log' = [log EXCEPT !.frames = @ + 1, !.iter_hand = FALSE,
                          !.iter_prev = last_sent_data, !.iter_wrote = FALSE]
    /\ UNCHANGED <<ports, available_ports, com, selected_port, is_open, camera,
                   results, line_dist, scaled_distance, last_sent_data, wire,
                   args, rets>>

\* Mutant: the failed read is reported and the iteration carries on with the
\* frame it has.
ReadFails_continues ==
    /\ pc = "read"
    /\ pc' = "detect"
    /\ log' = [log EXCEPT !.iter_hand = FALSE, !.iter_prev = last_sent_data,
                          !.iter_wrote = FALSE, !.cause = "frame"]
    /\ UNCHANGED <<ports, available_ports, com, selected_port, is_open, camera,
                   results, line_dist, frame, scaled_distance, last_sent_data,
                   wire, args, rets>>

\* Lines 71-74: camera.read() returns ret = False; break.
ReadFails ==
    /\ pc = "read"
    /\ pc' = "release"
    /\ log' = EnterFinally([log EXCEPT !.iter_hand = FALSE,
                                       !.iter_prev = last_sent_data,
                                       !.iter_wrote = FALSE], "frame")
    /\ UNCHANGED <<ports, available_ports, com, selected_port, is_open, camera,
                   results, line_dist, frame, scaled_distance, last_sent_data,
                   wire, args, rets>>

\* Mutant: the newline is left off the payload.
payload_bare(distance) == map_distance_to_scale(distance)

\* Line 78: the payload for a distance
payload(distance) == map_distance_to_scale(distance) \o <<"\n">>

\* Lines 76-78: get_hand, draw_line, scaled_distance
Detect ==
    /\ pc = "detect"
    /\ results' = frame.hands
    /\ line_dist' = draw_line(results', frame.shape, line_dist)
    /\ scaled_distance' = payload(line_dist')
    /\ pc' = "send"
    /\ log' = [log EXCEPT
                 !.iter_hand = has_distance(results', frame.shape),
                 !.observed = Append(@, IF has_distance(results', frame.shape)
                                        THEN line_dist' ELSE NoDist)]
    /\ UNCHANGED <<ports, available_ports, com, selected_port, is_open, camera,
                   frame, last_sent_data, wire, args, rets>>

\* Line 80: the data has not changed; nothing is sent.
SendSkip ==
    /\ pc = "send"
    /\ scaled_distance = last_sent_data
    /\ pc' = "show"
    /\ log' = [log EXCEPT !.compared = @ + 1]
    /\ UNCHANGED <<ports, available_ports, com, selected_port, is_open, camera,
                   results, line_dist, frame, scaled_distance, last_sent_data,
                   wire, args, rets>>

\* Mutant: a successful write does not update last_sent_data.
SendOk_forgets ==
    /\ pc = "send"
    /\ scaled_distance # last_sent_data
    /\ wire' = Append(wire, encode(scaled_distance))
    /\ pc' = "show"
    /\ log' = [log EXCEPT !.compared = @ + 1, !.writes = @ + 1,
                          !.iter_wrote = TRUE]
    /\ UNCHANGED <<ports, available_ports, com, selected_port, is_open, camera,
                   results, line_dist, frame, scaled_distance, last_sent_data,
                   args, rets>>

\* Lines 80-84: the data has changed and serial_.write() succeeds.
SendOk ==
    /\ pc = "send"
    /\ scaled_distance # last_sent_data
    /\ wire' = Append(wire, encode(scaled_distance))
    /\ last_sent_data' = scaled_distance
    /\ pc' = "show"
    /\ log' = [log EXCEPT !.compared = @ + 1, !.writes = @ + 1,
                          !.iter_wrote = TRUE]
    /\ UNCHANGED <<ports, available_ports, com, selected_port, is_open, camera,
                   results, line_dist, frame, scaled_distance, args, rets>>

\* Mutant: a failed write closes the port and the loop goes on.
SendFails_closes ==
    /\ pc = "send"
    /\ scaled_distance # last_sent_data
    /\ is_open' = FALSE
    /\ pc' = "show"
    /\ log' = [log EXCEPT !.compared = @ + 1, !.writes = @ + 1,
                          !.iter_wrote = TRUE, !.failed = scaled_distance,
                          !.writes_at_fail = log.writes + 1]
    /\ UNCHANGED <<ports, available_ports, com, selected_port, camera, results,
                   line_dist, frame, scaled_distance, last_sent_data, wire,
                   args, rets>>

\* Mutant: a failed write is reported and the loop goes on.
SendFails_continues ==
    /\ pc = "send"
    /\ scaled_distance # last_sent_data
    /\ pc' = "show"
    /\ log' = [log EXCEPT !.compared = @ + 1, !.writes = @ + 1,
                          !.iter_wrote = TRUE, !.failed = scaled_distance,
                          !.writes_at_fail = log.writes + 1]
    /\ UNCHANGED <<ports, available_ports, com, selected_port, is_open, camera,
                   results, line_dist, frame, scaled_distance, last_sent_data,
                   wire, args, rets>>

\* Lines 80-87: the data has changed and serial_.write() raises
\* SerialException; break.
SendFails ==
    /\ pc = "send"
    /\ scaled_distance # last_sent_data
    /\ pc' = "release"
    /\ log' = EnterFinally([log EXCEPT !.writes = @ + 1, !.iter_wrote = TRUE,
                                       !.failed = scaled_distance,
                                       !.writes_at_fail = log.writes + 1], "link")
    /\ UNCHANGED <<ports, available_ports, com, selected_port, is_open, camera,
                   results, line_dist, frame, scaled_distance, last_sent_data,
                   wire, args, rets>>

\* Lines 89-91: the quit key was pressed; break.
ShowQuit ==
    /\ pc = "show"
    /\ pc' = "release"
    /\ log' = EnterFinally(log, "quit")
    /\ UNCHANGED <<ports, available_ports, com, selected_port, is_open, camera,
                   results, line_dist, frame, scaled_distance, last_sent_data,
                   wire, args, rets>>

\* Lines 89-90: no quit key.
Show ==
    /\ pc = "show"
    /\ pc' = "sleep"
    /\ UNCHANGED <<ports, available_ports, com, selected_port, is_open, camera,
                   results, line_dist, frame, scaled_distance, last_sent_data,
                   wire, log, args, rets>>

\* Line 93: time.sleep(1 / 24)
Sleep ==
    /\ pc = "sleep"
    /\ pc' = "read"
    /\ UNCHANGED <<ports, available_ports, com, selected_port, is_open, camera,
                   results, line_dist, frame, scaled_distance, last_sent_data,
                   wire, log, args, rets>>

\* Where a KeyboardInterrupt takes control from each statement: inside the try
\* block to the except clause (line 95); from the except clause into the
\* finally block it still owes; anywhere else out of runner().
InTry == {"read", "detect", "send", "show", "sleep"}

interrupt_target(at) ==
    IF at \in InTry THEN "except"
    ELSE IF at = "except" THEN "release"
    ELSE "done"

\* A KeyboardInterrupt is delivered while runner() executes.
Interrupt ==
    /\ pc # "done"
    /\ pc' = interrupt_target(pc)
    /\ log' = LET l == [log EXCEPT !.interrupts = @ + 1,
                                   !.cause = IF @ = "" THEN "interrupt" ELSE @]
              IN  IF pc' = "done" THEN [l EXCEPT !.exit = "raise"]
                  ELSE IF pc' = "release"
                       THEN EnterFinally([l EXCEPT !.pending = TRUE], "interrupt")
                  ELSE l
    /\ UNCHANGED <<ports, available_ports, com, selected_port, is_open, camera,
                   results, line_dist, frame, scaled_distance, last_sent_data,
                   wire, args, rets>>

\* Lines 95-96: except KeyboardInterrupt, then on to the finally block.
Except ==
    /\ pc = "except"
    /\ pc' = "release"
    /\ log' = EnterFinally(log, "interrupt")
    /\ UNCHANGED <<ports, available_ports, com, selected_port, is_open, camera,
                   results, line_dist, frame, scaled_distance, last_sent_data,
                   wire, args, rets>>

\* Lines 98-99: camera.release(); cv2.destroyAllWindows()
Release ==
    /\ pc = "release"
    /\ camera' = "released"
    /\ pc' = "close"
    /\ UNCHANGED <<ports, available_ports, com, selected_port, is_open, results,
                   line_dist, frame, scaled_distance, last_sent_data, wire, log,
                   args, rets>>

\* Lines 100-102: close the port if it is open; runner() ends (re-raising
\* an interrupt that arrived in the except clause).
Close ==
    /\ pc = "close"
    /\ is_open' = FALSE
    /\ pc' = "done"
    /\ log' = [log EXCEPT !.exit = IF log.pending THEN "raise" ELSE "return"]
    /\ UNCHANGED <<ports, available_ports, com, selected_port, camera, results,
                   line_dist, frame, scaled_distance, last_sent_data, wire,
                   args, rets>>

Next ==
    \/ Select \/ OpenOk \/ OpenFails \/ Camera \/ Detector
    \/ ReadOk \/ ReadFails \/ Detect
    \/ SendSkip \/ SendOk \/ SendFails
    \/ ShowQuit \/ Show \/ Sleep
    \/ Interrupt \/ Except \/ Release \/ Close

Spec == Init /\ [][Next]_vars

\* ---- map_distance_to_scale on its own: two calls, on distances d1 <= d2
MapInit ==
    /\ RunnerInit
    /\ args \in {<<d1, d2>> : d1 \in 0..MaxDistance, d2 \in 0..MaxDistance}
    /\ args[1] <= args[2]
    /\ rets = <<>>

MapCall ==
    /\ rets = <<>>
    /\ rets' = <<map_distance_to_scale(args[1]), map_distance_to_scale(args[2])>>
    /\ UNCHANGED <<pc, ports, available_ports, com, selected_port, is_open,
                   camera, results, line_dist, frame, scaled_distance,
                   last_sent_data, wire, log, args>>

SpecMap == MapInit /\ [][MapCall]_vars

\* ---- Hand.get_finger and Hand.finger_count on their own
\* Most hands a detection result holds here.
MaxHands == 2

Fingers == <<"thumb", "index", "middle", "ring", "pinky">>

\* The finger landmark k (1..20) belongs to, as an index into Fingers.
finger_of(k) == IF k <= 4 THEN 1 ELSE (k - 1) \div 4 + 1

\* A hand whose fingertips lie delta thousandths to the right of the rest of
\* the finger for the fingers in ext, and delta to the left for the others.
PoseHand(ext, delta) ==
    [k1 \in 1..21 |->
        LET k == k1 - 1
        IN  IF k \in {4, 8, 12, 16, 20}
            THEN [x |-> IF Fingers[finger_of(k)] \in ext THEN 400 + delta
                        ELSE 400 - delta,
                  y |-> 100 + 10 * k]
            ELSE [x |-> 400, y |-> 100 + 10 * k]]

PoseHands == {PoseHand(ext, delta) : ext \in SUBSET named_fingers, delta \in {1, 79}}

\* The further hands of a result with more than one hand.
OtherHand == PoseHand({"index"}, 79)

HandLists ==
    {<<>>} \cup
    {[i \in 1..n |-> IF i = 1 THEN h ELSE OtherHand] :
        h \in PoseHands, n \in 1..MaxHands}

Shapes == {FrameShape, <<240, 320>>}

\* The calls: the method, its finger argument, whether the detector already
\* holds results, those results, and the image passed.
HandCalls ==
    {[op |-> c[1], finger |-> c[2], processed |-> p,
      results |-> IF p THEN hs ELSE <<>>,
      img |-> [shape |-> sh, hands |-> IF p THEN <<>> ELSE hs]] :
        c \in ({"get_finger"} \X (named_fingers \cup {"", "foo"}))
                  \cup {<<"finger_count", "">>},
        p \in BOOLEAN, hs \in HandLists, sh \in Shapes}

\* The hands the call works on.
CallResults == ensure_results(args.processed, args.results, args.img)

HandInit ==
    /\ RunnerInit
    /\ args \in HandCalls
    /\ rets = [raised |-> "", value |-> <<>>]

CallGetFinger ==
    /\ pc = "select"
    /\ args.op = "get_finger"
    /\ rets' = [raised |-> "",
                value |-> get_finger(CallResults, args.img.shape, args.finger)]
    /\ pc' = "returned"
    /\ UNCHANGED <<ports, available_ports, com, selected_port, is_open, camera,
                   results, line_dist, frame, scaled_distance, last_sent_data,
                   wire, log, args>>

CallFingerCount ==
    /\ pc = "select"
    /\ args.op = "finger_count"
    /\ rets' = finger_count(CallResults, args.img.shape)
    /\ pc' = "returned"
    /\ UNCHANGED <<ports, available_ports, com, selected_port, is_open, camera,
                   results, line_dist, frame, scaled_distance, last_sent_data,
                   wire, log, args>>

HandNext == CallGetFinger \/ CallFingerCount

SpecHand == HandInit /\ [][HandNext]_vars

\* ================================================================== claims
\* The wire bytes of the level names, level k at index k + 1.
NameBytes ==
    <<<<90, 69, 82, 79>>, <<79, 78, 69>>, <<84, 87, 79>>,
      <<84, 72, 82, 69, 69>>, <<70, 79, 85, 82>>, <<70, 73, 86, 69>>>>

\* The six level names as the mapper returns them, level k at index k + 1.
LevelNames ==
    <<<<"Z", "E", "R", "O">>, <<"O", "N", "E">>, <<"T", "W", "O">>,
      <<"T", "H", "R", "E", "E">>, <<"F", "O", "U", "R">>, <<"F", "I", "V", "E">>>>

\* Byte string w carries level k: as the level's name, or as its digit.
Carries(w, k) == w = NameBytes[k + 1] \o <<10>> \/ w = <<48 + k, 10>>

\* str begins with "COM" followed by the input c, character by character.
Matches(str, c) ==
    /\ Len(str) >= 3 + Len(c)
    /\ str[1] = "C" /\ str[2] = "O" /\ str[3] = "M"
    /\ \A j \in 1..Len(c) : str[3 + j] = c[j]

SomePortMatches == \E i \in 1..Len(available_ports) : Matches(available_ports[i], com)

\* C1: an iteration calls write() exactly when its payload differs from the
\* payload of the last successful write (none at first), so two consecutive
\* successful writes never carry the same level.
C1_WriteIffChanged ==
    /\ wire # <<>> => encode(last_sent_data) = wire[Len(wire)]
    /\ wire = <<>> => last_sent_data = <<>>
    /\ log.iter_wrote => scaled_distance # log.iter_prev
    /\ pc \in {"show", "sleep"} =>
           (log.iter_wrote <=> scaled_distance # log.iter_prev)
    /\ \A i \in 1..(Len(wire) - 1) : wire[i] # wire[i + 1]

\* C1 witness: three frames, the level changed once, the third frame was not
\* sent.
C1_Witness ==
    /\ pc = "show" /\ log.frames = 3 /\ Len(wire) = 2 /\ ~log.iter_wrote

\* C2 (as claimed): an iteration whose frame gave no fingertip distance calls
\* write() never, the first iteration included.
C2_NoHandNoWrite == ~log.iter_hand => ~log.iter_wrote

\* C3 (as claimed): every payload on the wire is a digit '0'..'5' and a
\* newline, two bytes in all.
C3_PayloadIsDigit ==
    \A i \in 1..Len(wire) :
        Len(wire[i]) = 2 /\ wire[i][1] \in 48..53 /\ wire[i][2] = 10

\* C3 (amended): every payload on the wire is the upper-case English name of a
\* level 0..5 followed by a newline, and the payload just written names the
\* level of the detector's distance.
C3_PayloadIsLevelName ==
    /\ \A i \in 1..Len(wire) : \E k \in 0..5 : wire[i] = NameBytes[k + 1] \o <<10>>
    /\ (pc = "show" /\ log.iter_wrote) =>
         \E k \in 0..5 :
            /\ wire[Len(wire)] = NameBytes[k + 1] \o <<10>>
            /\ k * (max_distance - min_distance) <= 5 * (line_dist - min_distance)
                 \/ (k = 0 /\ line_dist < min_distance)
            /\ 5 * (line_dist - min_distance) < (k + 1) * (max_distance - min_distance)
                 \/ (k = 5 /\ line_dist >= max_distance)

C3_Witness ==
    /\ Len(wire) = 3
    /\ wire[2] = <<79, 78, 69, 10>>
    /\ wire[3] = <<84, 72, 82, 69, 69, 10>>

\* The loop has run three iterations, on frames whose fingertip distances
\* were 10, 50 and 205, and each got past its send step.
ScriptRun == log.observed = <<10, 50, 205>> /\ log.compared = 3

\* C4 (as claimed): frames at distances 10, 50, 205 give exactly 3 writes,
\* carrying levels 0, 1, 5.
C4_ThreeWrites ==
    ScriptRun =>
        /\ log.writes = 3 /\ Len(wire) = 3
        /\ Carries(wire[1], 0) /\ Carries(wire[2], 1) /\ Carries(wire[3], 5)

\* C4 (amended): frames at distances 10, 50, 205 give exactly 2 writes,
\* carrying levels 0 and 5: distance 50 is level 0 again and is not sent.
C4_TwoWrites ==
    ScriptRun =>
        /\ log.writes = 2 /\ Len(wire) = 2
        /\ Carries(wire[1], 0) /\ Carries(wire[2], 5)

C4_Witness == ScriptRun /\ pc = "sleep"

\* C5: for every distance d >= 0 the mapper's key is a level 0..5 (the lookup
\* does not fail), level 0 for d < 15 and level 5 for d > 200.
C5_LevelInRange ==
    rets # <<>> =>
        \A i \in 1..2 :
            /\ rets[i] # KeyError
            /\ \E k \in 0..5 : rets[i] = LevelNames[k + 1]
            /\ args[i] < 15 => rets[i] = LevelNames[1]
            /\ args[i] > 200 => rets[i] = LevelNames[6]

C5_Witness == rets # <<>> /\ args[1] < 15 /\ args[2] > 200

\* The level whose name is n.
LevelOf(n) == CHOOSE k \in 0..5 : LevelNames[k + 1] = n

\* C6: 15 maps to level 0, 200 to level 5, the mapping is non-decreasing on
\* [15, 200], and the level is the interpolation 5 * (d - 15) / 185 truncated.
C6_MonotoneInterpolation ==
    (rets # <<>> /\ 15 <= args[1] /\ args[2] <= 200) =>
        /\ args[1] = 15 => rets[1] = LevelNames[1]
        /\ args[2] = 200 => rets[2] = LevelNames[6]
        /\ LevelOf(rets[1]) <= LevelOf(rets[2])
        /\ \A i \in 1..2 :
              /\ LevelOf(rets[i]) * 185 <= 5 * (args[i] - 15)
              /\ 5 * (args[i] - 15) < (LevelOf(rets[i]) + 1) * 185

C6_Witness == rets # <<>> /\ args = <<15, 200>> /\ LevelOf(rets[1]) < LevelOf(rets[2])

C8_FinalizedOnEveryExit ==
    (pc = "done" /\ log.opened) =>
        (log.finals = 1 /\ ~is_open /\ camera = "released")

\* C9: when no port string starts with "COM" + input, runner() ends at once:
\* one prompt, no open(), no camera, no write.
C9_NoMatchAborts ==
    (log.prompts >= 1 /\ ~SomePortMatches) =>
        /\ pc = "done"
        /\ log.prompts = 1
        /\ log.opens = 0 /\ ~log.opened /\ ~is_open
        /\ camera = "none"
        /\ log.writes = 0 /\ wire = <<>>
        /\ log.frames = 0 /\ log.finals = 0

C9_Witness ==
    /\ pc = "done" /\ log.prompts = 1 /\ ~SomePortMatches
    /\ available_ports # <<>> /\ com = <<"9">>

\* C10: selection succeeds exactly when some port string starts with
\* "COM" + input, and then selects exactly "COM" + input.
C10_SelectByPrefix ==
    log.prompts >= 1 =>
        /\ (selected_port # None) <=> SomePortMatches
        /\ selected_port # None =>
              /\ Len(selected_port) = 3 + Len(com)
              /\ Matches(selected_port, com)
        /\ com = <<"9">> => selected_port = None
        /\ (com = <<"2">> /\ Len(available_ports) = 1
              /\ Len(available_ports[1]) = 17 /\ Matches(available_ports[1], com))
             => selected_port = <<"C", "O", "M", "2">>

C10_Witness ==
    /\ log.prompts = 1 /\ com = <<"2">>
    /\ selected_port = <<"C", "O", "M", "2">>
    /\ Len(available_ports) = 1 /\ Len(available_ports[1]) = 17

\* C11: the port goes Closed -> Open -> Closed and stays closed: it becomes open
\* only when it has never been open before, open() is called at most once, and
\* write() is called only while the port is open.
C11_PortLifecycle ==
    /\ [](log.opens <= 1)
    /\ [](is_open => log.opened)
    /\ [][(is_open' /\ ~is_open) => ~log.opened]_vars
    /\ [][(log'.writes # log.writes \/ wire' # wire) => (is_open /\ is_open')]_vars

C11_Witness ==
    /\ pc = "done" /\ log.opened /\ ~is_open /\ Len(wire) = 2 /\ log.cause = "quit"

\* C12: once the quit key is seen, a read fails or an interrupt arrives in the
\* loop, no frame is read and no write() is called any more and no statement of
\* the loop runs again; the iteration of a failed read detects nothing and
\* writes nothing.
C12_StopWithinIteration ==
    /\ [][log.cause # "" =>
            /\ log'.frames = log.frames
            /\ log'.writes = log.writes
            /\ wire' = wire
            /\ Len(log'.observed) = Len(log.observed)
            /\ pc' \notin InTry]_vars
    /\ [](log.cause = "frame" =>
            /\ ~log.iter_wrote /\ ~log.iter_hand
            /\ Len(log.observed) = log.frames)

C12_Witness ==
    /\ pc = "done" /\ log.cause = "frame" /\ log.frames = 2 /\ Len(wire) = 1

\* C15: when serial_.open() raises, runner() ends at once: open() was called
\* once, no camera, no frame, no write, no finally block, and the port is not
\* open.
C15_OpenFailureAborts ==
    (log.opens >= 1 /\ ~log.opened) =>
        /\ pc = "done"
        /\ log.opens = 1
        /\ camera = "none"
        /\ log.frames = 0 /\ log.observed = <<>>
        /\ log.writes = 0 /\ wire = <<>>
        /\ log.finals = 0
        /\ ~is_open

C15_Witness ==
    /\ pc = "done" /\ log.opens = 1 /\ ~log.opened /\ ~is_open
    /\ selected_port = <<"C", "O", "M", "2">>

\* C19 (as claimed): the port runner() opens is the device of one of the
\* enumerated ports.
C19_OpensEnumeratedPort ==
    log.opens >= 1 => \E i \in 1..Len(ports) : ports[i].device = selected_port

\* C20: after an iteration's send step last_sent_data is the payload for the
\* detector's line_dist, and from the second frame on a frame without a
\* fingertip pair leaves line_dist alone and causes no write.
C20_RecordTracksDistance ==
    /\ pc \in {"show", "sleep"} =>
         \E k \in 0..5 :
            /\ encode(last_sent_data) = NameBytes[k + 1] \o <<10>>
            /\ k * 185 <= 5 * (line_dist - 15) \/ (k = 0 /\ line_dist < 15)
            /\ 5 * (line_dist - 15) < (k + 1) * 185 \/ (k = 5 /\ line_dist >= 200)
    /\ (log.frames >= 2 /\ pc \in {"send", "show", "sleep"} /\ ~log.iter_hand) =>
         /\ ~log.iter_wrote
         /\ scaled_distance = log.iter_prev
         /\ Len(wire) = log.writes

C20_Witness ==
    /\ pc = "show" /\ log.frames = 2 /\ ~log.iter_hand /\ ~log.iter_wrote
    /\ wire = <<<<70, 73, 86, 69, 10>>>>

\* The landmark indexes of each finger, written out.
FingerLandmarks(f) ==
    IF f = "thumb" THEN <<2, 3, 4>>
    ELSE IF f = "index" THEN <<5, 6, 7, 8>>
    ELSE IF f = "middle" THEN <<9, 10, 11, 12>>
    ELSE IF f = "ring" THEN <<13, 14, 15, 16>>
    ELSE <<17, 18, 19, 20>>

Returned == pc = "returned"

\* C13 (as claimed): get_finger with a name that is neither a finger nor empty
\* returns None and does not raise, with or without a hand.
C13_UnknownFingerUnavailable ==
    (Returned /\ args.op = "get_finger" /\ args.finger = "foo") =>
        (rets.raised = "" /\ rets.value = None)

\* C14 (as claimed): with no hand in the detection result finger_count does
\* not raise and returns something other than a count name.
C14_NoHandUndetected ==
    (Returned /\ args.op = "finger_count" /\ CallResults = <<>>) =>
        /\ rets.raised = ""
        /\ \A k \in 0..5 : rets.value # LevelNames[k + 1]

\* The pixel x-coordinate of landmark k of hand h in an image of the given
\* shape, by truncation.
PixelX(h, k, shape) == (h[k + 1].x * shape[2]) \div 1000

\* C16: with exactly one hand, finger_count returns the name of the number of
\* fingers whose fingertip pixel x is strictly greater than the pixel x of the
\* landmark before it, the thumb included.
C16_CountsTipsRightOfPrevious ==
    (Returned /\ args.op = "finger_count" /\ Len(CallResults) = 1) =>
        LET h == CallResults[1]
            n == Cardinality({f \in named_fingers :
                    LET lm == FingerLandmarks(f)
                    IN  PixelX(h, lm[Len(lm)], args.img.shape)
                          > PixelX(h, lm[Len(lm) - 1], args.img.shape)})
        IN  /\ rets.raised = ""
            /\ n \in 0..5
            /\ rets.value = LevelNames[n + 1]

\* C16 witness: only index and middle have the tip to the right; the count is
\* TWO.
C16_Witness ==
    /\ Returned /\ args.op = "finger_count"
    /\ CallResults = <<PoseHand({"index", "middle"}, 79)>>
    /\ rets.value = <<"T", "W", "O">>

\* C17 (as claimed): for a named finger get_finger returns None or exactly the
\* finger's landmarks (3 for the thumb, 4 otherwise), however many hands the
\* result holds.
C17_ExactLandmarkCount ==
    (Returned /\ args.op = "get_finger" /\ args.finger \in named_fingers) =>
        \/ rets.value = None
        \/ Len(rets.value) = Len(FingerLandmarks(args.finger))

\* The returned position of the j-th landmark of the finger in the i-th hand.
ReturnedPosition(i, j) ==
    rets.value[(i - 1) * Len(FingerLandmarks(args.finger)) + j]

NamedFingerCall ==
    /\ Returned /\ args.op = "get_finger" /\ args.finger \in named_fingers
    /\ CallResults # <<>>

\* C18 (as claimed): each pixel coordinate get_finger returns is n * D rounded
\* to the nearest integer.
C18_PixelIsRounded ==
    NamedFingerCall =>
        \A i \in 1..Len(CallResults) :
          \A j \in 1..Len(FingerLandmarks(args.finger)) :
            LET lm == CallResults[i][FingerLandmarks(args.finger)[j] + 1]
                p == ReturnedPosition(i, j)
            IN  /\ 2000 * p[1] - 1000 <= 2 * lm.x * args.img.shape[2]
                /\ 2 * lm.x * args.img.shape[2] < 2000 * p[1] + 1000
                /\ 2000 * p[2] - 1000 <= 2 * lm.y * args.img.shape[1]
                /\ 2 * lm.y * args.img.shape[1] < 2000 * p[2] + 1000

\* C18 (amended): each pixel coordinate get_finger returns is n * D truncated to
\* an integer, with D the width (for x) and height (for y) of the image passed
\* to the call.
C18_PixelIsTruncated ==
    NamedFingerCall =>
        /\ Len(rets.value) = Len(CallResults) * Len(FingerLandmarks(args.finger))
        /\ \A i \in 1..Len(CallResults) :
             \A j \in 1..Len(FingerLandmarks(args.finger)) :
               LET lm == CallResults[i][FingerLandmarks(args.finger)[j] + 1]
                   p == ReturnedPosition(i, j)
               IN  /\ 1000 * p[1] <= lm.x * args.img.shape[2]
                   /\ lm.x * args.img.shape[2] < 1000 * (p[1] + 1)
                   /\ 1000 * p[2] <= lm.y * args.img.shape[1]
                   /\ lm.y * args.img.shape[1] < 1000 * (p[2] + 1)

\* C18 witness: 0.479 of 640 columns is 306.56 and comes back as 306.
C18_Witness ==
    /\ NamedFingerCall /\ args.finger = "index" /\ args.img.shape = <<480, 640>>
    /\ CallResults[1][9].x = 479
    /\ rets.value[4][1] = 306

====
